---- MODULE Spec2Model ----
(***************************************************************************)
(* Model of cross_platform/media_management/lightning_trimmer.py: the run   *)
(* of main() through frame-rate detection, brightness analysis, grouping,   *)
(* padding/merging and the final render.                                    *)
(*                                                                          *)
(* Time is counted in half-second ticks, so the configured pre-roll of      *)
(* 0.5 s is 1 tick, the post-roll of 1.0 s is 2 ticks, and the 1.5 of       *)
(* max_gap = 1.5 / framerate is 3 ticks.  Timestamps and paddings are exact *)
(* integers here; the rounding of Python floats is not modelled.            *)
(***************************************************************************)
EXTENDS Integers, Sequences, FiniteSets, TLC

VARIABLES
    pc,                 \* the call main() is about to make, or "done"
    calls,              \* the calls main() has made so far, in order
    raised,             \* the exception that left the last call, or "none"
    outcome,            \* how the run ended (main's last report or exit)
    framerate,          \* the rational r_frame_rate read by ffprobe
    stderr_lines,       \* process.stderr.splitlines() of the analysis run
    analysis_exit,      \* exit status of the analysis ffmpeg, or "none"
    bright_frames,      \* list returned by detect_bright_frames
    event_groups,       \* list of (start, end) from group_continuous_frames
    final_segments,     \* list of (start, end) from the segment builder
    encoder_calls,      \* filters handed to the render ffmpeg, one per run
    render_result,      \* how subprocess.run of the render ended
    render_report,      \* what generate_final_video printed about a failure
    success,            \* return value of generate_final_video
    PRE_ROLL_SECONDS,   \* configuration, in ticks
    POST_ROLL_SECONDS,  \* configuration, in ticks
    first_segments,     \* output of the first build when it is fed back
    fed_back            \* TRUE once an output has been fed back as events

vars == <<pc, calls, raised, outcome, framerate, stderr_lines, analysis_exit,
          bright_frames, event_groups,
          final_segments, encoder_calls, render_result, render_report,
          success, PRE_ROLL_SECONDS, POST_ROLL_SECONDS, first_segments,
          fed_back>>

----------------------------------------------------------------------------
\* Bounds of the model.
MaxTime == 4      \* largest timestamp of an analysed frame, in ticks
MaxLines == 3     \* most lines of analysis output
MaxFailedLines == 1 \* most lines of an analysis that exits non-zero
MaxEvents == 3    \* most events given to the segment builder on its own
MaxEventTime == 3 \* largest time of such an event, in ticks
MaxRoll == 1      \* largest pre-roll / post-roll tried on it, in ticks
MaxNum == 3       \* largest frame-rate numerator
MaxDen == 2       \* largest frame-rate denominator

\* Configuration of the script, in ticks.
BRIGHTNESS_THRESHOLD == 50
ConfiguredPreRoll == 1
ConfiguredPostRoll == 2
MaxGapTicks == 3

----------------------------------------------------------------------------
\* Input domains.
\* Brightness readings: one exactly at the threshold, one above it.
Times == 0..MaxTime
Lumas == {BRIGHTNESS_THRESHOLD, BRIGHTNESS_THRESHOLD + 1}

\* A line of ffmpeg's stderr, seen through the regex of detect_bright_frames:
\* it does not match, it matches with two parsable numbers, or it matches
\* with a digit/dot run float() rejects (such as "1.2.3").
NoMatchLine == [kind |-> "nomatch", pts_time |-> 0, yavg |-> 0]
BadFloatLine == [kind |-> "badfloat", pts_time |-> 0, yavg |-> 0]
MatchLines == {[kind |-> "match", pts_time |-> t, yavg |-> y] : t \in Times, y \in Lumas}
Lines == {NoMatchLine, BadFloatLine} \cup MatchLines

SeqsUpTo(S, n) == UNION {[1..k -> S] : k \in 0..n}

FrameRates == {[num |-> n, den |-> d] : n \in (-1)..MaxNum, d \in 0..MaxDen}
NoFramerate == [num |-> 0, den |-> 0]

Events == {ev \in (0..MaxEventTime) \X (0..MaxEventTime) : ev[1] <= ev[2]}

Max(a, b) == IF a >= b THEN a ELSE b

----------------------------------------------------------------------------
\* detect_bright_frames: the scan of the analysis output.

\* IsBright with the comparison ">=" in place of ">".
IsBrightOrEqual(brightness) == brightness >= BRIGHTNESS_THRESHOLD

IsBright(brightness) == brightness > BRIGHTNESS_THRESHOLD

\* ScanLines with the scan ended at the first line that does not match.
RECURSIVE ScanLinesStopsAtNoMatch(_, _, _)
ScanLinesStopsAtNoMatch(lines, i, bright_timestamps) ==
    IF i > Len(lines)
    THEN [raised |-> "none", value |-> bright_timestamps]
    ELSE LET line == lines[i] IN
         IF line.kind = "nomatch"
         THEN [raised |-> "none", value |-> bright_timestamps]
         ELSE IF line.kind = "badfloat"
         THEN [raised |-> "ValueError", value |-> <<>>]
         ELSE IF IsBright(line.yavg)
         THEN ScanLinesStopsAtNoMatch(lines, i + 1,
                                      Append(bright_timestamps, line.pts_time))
         ELSE ScanLinesStopsAtNoMatch(lines, i + 1, bright_timestamps)

RECURSIVE ScanLines(_, _, _)
ScanLines(lines, i, bright_timestamps) ==
    IF i > Len(lines)
    THEN [raised |-> "none", value |-> bright_timestamps]
    ELSE LET line == lines[i] IN
         IF line.kind = "nomatch"
         THEN ScanLines(lines, i + 1, bright_timestamps)
         ELSE IF line.kind = "badfloat"
         THEN [raised |-> "ValueError", value |-> <<>>]
         ELSE IF IsBright(line.yavg)
         THEN ScanLines(lines, i + 1, Append(bright_timestamps, line.pts_time))
         ELSE ScanLines(lines, i + 1, bright_timestamps)

detect_bright_frames(lines) == ScanLines(lines, 1, <<>>)

----------------------------------------------------------------------------
\* group_continuous_frames.

\* WithinMaxGap with the comparison "<" in place of "<=".
WithinMaxGapStrict(diff, rate) ==
    diff * rate.num * rate.num < MaxGapTicks * rate.den * rate.num

\* diff <= 1.5 / framerate with framerate = num / den (num, den non-zero),
\* both sides multiplied by num * num > 0.
WithinMaxGap(diff, rate) ==
    diff * rate.num * rate.num <= MaxGapTicks * rate.den * rate.num

\* GroupLoop without the append of the last event after the loop.
RECURSIVE GroupLoopDropsLast(_, _, _, _, _, _)
GroupLoopDropsLast(bright_timestamps, rate, i, current_group_start, current_group_end, continuous_groups) ==
    IF i > Len(bright_timestamps)
    THEN continuous_groups
    ELSE IF WithinMaxGap(bright_timestamps[i] - bright_timestamps[i - 1], rate)
    THEN GroupLoopDropsLast(bright_timestamps, rate, i + 1, current_group_start,
                            bright_timestamps[i], continuous_groups)
    ELSE GroupLoopDropsLast(bright_timestamps, rate, i + 1, bright_timestamps[i],
                            bright_timestamps[i],
                            Append(continuous_groups,
                                   <<current_group_start, current_group_end>>))

\* GroupLoop without the reset of current_group_end when a gap is found.
RECURSIVE GroupLoopKeepsEnd(_, _, _, _, _, _)
GroupLoopKeepsEnd(bright_timestamps, rate, i, current_group_start, current_group_end, continuous_groups) ==
    IF i > Len(bright_timestamps)
    THEN Append(continuous_groups, <<current_group_start, current_group_end>>)
    ELSE IF WithinMaxGap(bright_timestamps[i] - bright_timestamps[i - 1], rate)
    THEN GroupLoopKeepsEnd(bright_timestamps, rate, i + 1, current_group_start,
                           bright_timestamps[i], continuous_groups)
    ELSE GroupLoopKeepsEnd(bright_timestamps, rate, i + 1, bright_timestamps[i],
                           current_group_end,
                           Append(continuous_groups,
                                  <<current_group_start, current_group_end>>))

RECURSIVE GroupLoop(_, _, _, _, _, _)
GroupLoop(bright_timestamps, rate, i, current_group_start, current_group_end, continuous_groups) ==
    IF i > Len(bright_timestamps)
    THEN Append(continuous_groups, <<current_group_start, current_group_end>>)
    ELSE IF WithinMaxGap(bright_timestamps[i] - bright_timestamps[i - 1], rate)
    THEN GroupLoop(bright_timestamps, rate, i + 1, current_group_start,
                   bright_timestamps[i], continuous_groups)
    ELSE GroupLoop(bright_timestamps, rate, i + 1, bright_timestamps[i],
                   bright_timestamps[i],
                   Append(continuous_groups,
                          <<current_group_start, current_group_end>>))

group_continuous_frames(bright_timestamps, rate) ==
    IF bright_timestamps = <<>>
    THEN [raised |-> "none", value |-> <<>>]
    ELSE IF rate.num = 0
    THEN [raised |-> "ZeroDivisionError", value |-> <<>>]
    ELSE [raised |-> "none",
          value |-> GroupLoop(bright_timestamps, rate, 2, bright_timestamps[1],
                              bright_timestamps[1], <<>>)]

----------------------------------------------------------------------------
\* calculate_and_merge_final_segments.

\* PadEvent without the clamp at zero.
PadEventUnclamped(event) ==
    <<event[1] - PRE_ROLL_SECONDS, event[2] + POST_ROLL_SECONDS>>

PadEvent(event) ==
    <<Max(0, event[1] - PRE_ROLL_SECONDS), event[2] + POST_ROLL_SECONDS>>

PaddedSegments(groups) == [i \in 1..Len(groups) |-> PadEvent(groups[i])]

\* list.sort(key=lambda x: x[0]) is stable: an element goes after every
\* element whose start is not larger.
\* InsertByStart with "<" in place of "<=": an element goes before the
\* elements of equal start.
RECURSIVE InsertByStartBeforeEqual(_, _)
InsertByStartBeforeEqual(sorted, x) ==
    IF sorted = <<>>
    THEN <<x>>
    ELSE IF sorted[Len(sorted)][1] < x[1]
    THEN Append(sorted, x)
    ELSE Append(InsertByStartBeforeEqual(SubSeq(sorted, 1, Len(sorted) - 1), x),
                sorted[Len(sorted)])

RECURSIVE InsertByStart(_, _)
InsertByStart(sorted, x) ==
    IF sorted = <<>>
    THEN <<x>>
    ELSE IF sorted[Len(sorted)][1] <= x[1]
    THEN Append(sorted, x)
    ELSE Append(InsertByStart(SubSeq(sorted, 1, Len(sorted) - 1), x),
                sorted[Len(sorted)])

RECURSIVE SortByStartUpTo(_, _)
SortByStartUpTo(segments, n) ==
    IF n = 0
    THEN <<>>
    ELSE InsertByStart(SortByStartUpTo(segments, n - 1), segments[n])

\* SortByStart with the sort left out.
SortByStartOmitted(segments) == segments

SortByStart(segments) == SortByStartUpTo(segments, Len(segments))

\* MergesInto with a segment that starts one unit after the end merged too.
MergesIntoWithSlack(next_start, current_end) == next_start <= current_end + 1

\* MergesInto with the comparison "<" in place of "<=".
MergesIntoStrict(next_start, current_end) == next_start < current_end

MergesInto(next_start, current_end) == next_start <= current_end

\* MergeSweep without the append of the last running segment.
RECURSIVE MergeSweepDropsLast(_, _, _, _, _)
MergeSweepDropsLast(segments, i, current_start, current_end, merged) ==
    IF i > Len(segments)
    THEN merged
    ELSE IF MergesInto(segments[i][1], current_end)
    THEN MergeSweepDropsLast(segments, i + 1, current_start,
                             Max(current_end, segments[i][2]), merged)
    ELSE MergeSweepDropsLast(segments, i + 1, segments[i][1], segments[i][2],
                             Append(merged, <<current_start, current_end>>))

\* MergeSweep with current_end left as it is when a segment is merged.
RECURSIVE MergeSweepKeepsFirstEnd(_, _, _, _, _)
MergeSweepKeepsFirstEnd(segments, i, current_start, current_end, merged) ==
    IF i > Len(segments)
    THEN Append(merged, <<current_start, current_end>>)
    ELSE IF MergesInto(segments[i][1], current_end)
    THEN MergeSweepKeepsFirstEnd(segments, i + 1, current_start, current_end,
                                 merged)
    ELSE MergeSweepKeepsFirstEnd(segments, i + 1, segments[i][1],
                                 segments[i][2],
                                 Append(merged, <<current_start, current_end>>))

\* MergeSweep with current_end = next_end in place of the max.
RECURSIVE MergeSweepTakesNextEnd(_, _, _, _, _)
MergeSweepTakesNextEnd(segments, i, current_start, current_end, merged) ==
    IF i > Len(segments)
    THEN Append(merged, <<current_start, current_end>>)
    ELSE IF MergesInto(segments[i][1], current_end)
    THEN MergeSweepTakesNextEnd(segments, i + 1, current_start,
                                segments[i][2], merged)
    ELSE MergeSweepTakesNextEnd(segments, i + 1, segments[i][1],
                                segments[i][2],
                                Append(merged, <<current_start, current_end>>))

RECURSIVE MergeSweep(_, _, _, _, _)
MergeSweep(segments, i, current_start, current_end, merged) ==
    IF i > Len(segments)
    THEN Append(merged, <<current_start, current_end>>)
    ELSE IF MergesInto(segments[i][1], current_end)
    THEN MergeSweep(segments, i + 1, current_start,
                    Max(current_end, segments[i][2]), merged)
    ELSE MergeSweep(segments, i + 1, segments[i][1], segments[i][2],
                    Append(merged, <<current_start, current_end>>))

calculate_and_merge_final_segments(groups) ==
    IF groups = <<>>
    THEN <<>>
    ELSE LET segments == SortByStart(PaddedSegments(groups)) IN
         MergeSweep(segments, 2, segments[1][1], segments[1][2], <<>>)

----------------------------------------------------------------------------
\* The run of main().

Init ==
    /\ pc = "check_dependencies"
    /\ calls = <<>>
    /\ raised = "none"
    /\ outcome = "running"
    /\ framerate = NoFramerate
    /\ stderr_lines = <<>>
    /\ analysis_exit = "none"
    /\ bright_frames = <<>>
    /\ event_groups = <<>>
    /\ final_segments = <<>>
    /\ encoder_calls = <<>>
    /\ render_result = "none"
    /\ render_report = "none"
    /\ success = "unset"
    /\ PRE_ROLL_SECONDS = ConfiguredPreRoll
    /\ POST_ROLL_SECONDS = ConfiguredPostRoll
    /\ first_segments = <<>>
    /\ fed_back = FALSE

\* What becomes of an exception that leaves a call of main(): sys.exit ends
\* the process, KeyboardInterrupt and Exception are reported by main's
\* handlers.
HandlerOutcome(exc) ==
    IF exc = "SystemExit(1)"
    THEN "exit_1"
    ELSE IF exc = "SystemExit(0)"
    THEN "exit_0"
    ELSE IF exc = "KeyboardInterrupt"
    THEN "script_cancelled"
    ELSE "unexpected_error"

Raise(exc) ==
    /\ pc' = "done"
    /\ raised' = exc
    /\ outcome' = HandlerOutcome(exc)

\* Return with the "return" after the no-lightning report missing.
ReturnFallsThrough(result) ==
    /\ pc' = IF result = "no_lightning" THEN "group_continuous_frames" ELSE "done"
    /\ raised' = raised
    /\ outcome' = result

Return(result) ==
    /\ pc' = "done"
    /\ raised' = raised
    /\ outcome' = result

Continue(next) ==
    /\ pc' = next
    /\ raised' = raised
    /\ outcome' = outcome

\* check_dependencies(): sys.exit(1) when ffmpeg or ffprobe is missing.
main_check_dependencies ==
    /\ pc = "check_dependencies"
    /\ calls' = Append(calls, "check_dependencies")
    /\ \E found \in BOOLEAN :
          IF found
          THEN Continue("get_video_file_from_user")
          ELSE Raise("SystemExit(1)")
    /\ UNCHANGED <<framerate, stderr_lines, analysis_exit, bright_frames, event_groups,
                   final_segments, encoder_calls, render_result,
                   render_report, success, PRE_ROLL_SECONDS,
                   POST_ROLL_SECONDS, first_segments, fed_back>>

\* get_video_file_from_user(): asks until a file is named (an invalid path
\* only repeats the prompt), or exits 0 on EOF / Ctrl-C.
main_get_video_file_from_user ==
    /\ pc = "get_video_file_from_user"
    /\ calls' = Append(calls, "get_video_file_from_user")
    /\ \E answer \in {"file", "interrupt"} :
          IF answer = "file"
          THEN Continue("get_video_framerate")
          ELSE Raise("SystemExit(0)")
    /\ UNCHANGED <<framerate, stderr_lines, analysis_exit, bright_frames, event_groups,
                   final_segments, encoder_calls, render_result,
                   render_report, success, PRE_ROLL_SECONDS,
                   POST_ROLL_SECONDS, first_segments, fed_back>>

\* get_video_framerate: what it does with the end of the ffprobe run.  A
\* failed run or unparsable output is sys.exit(1); a zero denominator is a
\* ZeroDivisionError, which its except clause does not name.
get_video_framerate(probe) ==
    IF probe.ended # "ok"
    THEN [raised |-> probe.ended, value |-> NoFramerate]
    ELSE IF probe.rate.den = 0
    THEN [raised |-> "ZeroDivisionError", value |-> NoFramerate]
    ELSE [raised |-> "none", value |-> probe.rate]

Probes ==
    {[ended |-> "SystemExit(1)", rate |-> NoFramerate],
     [ended |-> "KeyboardInterrupt", rate |-> NoFramerate]}
    \cup {[ended |-> "ok", rate |-> r] : r \in FrameRates}

\* framerate = get_video_framerate(source_video_path).
main_get_video_framerate ==
    /\ pc = "get_video_framerate"
    /\ calls' = Append(calls, "get_video_framerate")
    /\ \E probe \in Probes :
          LET result == get_video_framerate(probe) IN
          IF result.raised # "none"
          THEN /\ Raise(result.raised)
               /\ framerate' = framerate
          ELSE /\ Continue("detect_bright_frames")
               /\ framerate' = result.value
    /\ UNCHANGED <<stderr_lines, analysis_exit, bright_frames, event_groups,
                   final_segments, encoder_calls, render_result,
                   render_report, success, PRE_ROLL_SECONDS,
                   POST_ROLL_SECONDS, first_segments, fed_back>>

\* NoLightning with the early return never taken.
NoLightningIgnored(frames) == FALSE

\* main's "if not bright_frames" after detect_bright_frames.
NoLightning(frames) == frames = <<>>

\* The ways the analysis ffmpeg can end once started: its exit status and
\* the lines it printed.  subprocess.run is called with check=False.
AnalysisRuns ==
    {[exit |-> "zero", lines |-> l] : l \in SeqsUpTo(Lines, MaxLines)}
    \cup {[exit |-> "nonzero", lines |-> l] : l \in SeqsUpTo(Lines, MaxFailedLines)}

\* bright_frames = detect_bright_frames(source_video_path), then main's early
\* return.  ffmpeg may be missing (sys.exit(1)), the operator may interrupt
\* the analysis, or the analysis ends and its stderr is scanned.
main_detect_bright_frames ==
    /\ pc = "detect_bright_frames"
    /\ calls' = Append(calls, "detect_bright_frames")
    /\ \/ /\ Raise("SystemExit(1)")
          /\ UNCHANGED <<stderr_lines, analysis_exit, bright_frames>>
       \/ /\ Raise("KeyboardInterrupt")
          /\ UNCHANGED <<stderr_lines, analysis_exit, bright_frames>>
       \/ \E run \in AnalysisRuns :
             LET result == detect_bright_frames(run.lines) IN
             /\ stderr_lines' = run.lines
             /\ analysis_exit' = run.exit
             /\ IF result.raised # "none"
                THEN /\ Raise(result.raised)
                     /\ bright_frames' = bright_frames
                ELSE /\ bright_frames' = result.value
                     /\ IF NoLightning(result.value)
                        THEN Return("no_lightning")
                        ELSE Continue("group_continuous_frames")
    /\ UNCHANGED <<framerate, event_groups, final_segments, encoder_calls,
                   render_result, render_report, success, PRE_ROLL_SECONDS,
                   POST_ROLL_SECONDS, first_segments, fed_back>>

\* event_groups = group_continuous_frames(bright_frames, framerate).
main_group_continuous_frames ==
    /\ pc = "group_continuous_frames"
    /\ calls' = Append(calls, "group_continuous_frames")
    /\ LET result == group_continuous_frames(bright_frames, framerate) IN
       IF result.raised # "none"
       THEN /\ Raise(result.raised)
            /\ event_groups' = event_groups
       ELSE /\ Continue("calculate_and_merge_final_segments")
            /\ event_groups' = result.value
    /\ UNCHANGED <<framerate, stderr_lines, analysis_exit, bright_frames, final_segments,
                   encoder_calls, render_result, render_report, success,
                   PRE_ROLL_SECONDS, POST_ROLL_SECONDS, first_segments,
                   fed_back>>

\* main's "if not final_segments" after the segment builder.
NoClips(segments) == segments = <<>>

\* final_segments = calculate_and_merge_final_segments(event_groups), then
\* main's early return.
main_calculate_and_merge_final_segments ==
    /\ pc = "calculate_and_merge_final_segments"
    /\ calls' = Append(calls, "calculate_and_merge_final_segments")
    /\ LET merged == calculate_and_merge_final_segments(event_groups) IN
       /\ final_segments' = merged
       /\ IF NoClips(merged)
          THEN Return("no_clips")
          ELSE Continue("generate_final_video")
    /\ UNCHANGED <<framerate, stderr_lines, analysis_exit, bright_frames, event_groups,
                   encoder_calls, render_result, render_report, success,
                   PRE_ROLL_SECONDS, POST_ROLL_SECONDS, first_segments,
                   fed_back>>

\* The filter_complex string of generate_final_video: for the video stream
\* and for the audio stream, one "between(t,s,e)" term per segment, joined
\* by "+".  A term is kept as its two bounds.
BetweenTerms(segments) ==
    [i \in 1..Len(segments) |-> [lo |-> segments[i][1], hi |-> segments[i][2]]]

\* filter_complex with the audio predicate built from the first segment only.
filter_complex_audio_first(segments) ==
    [video |-> BetweenTerms(segments),
     audio |-> BetweenTerms(SubSeq(segments, 1, 1))]

filter_complex(segments) ==
    [video |-> BetweenTerms(segments), audio |-> BetweenTerms(segments)]

\* EncoderInvocations with one ffmpeg run per segment.
EncoderInvocationsPerSegment(segments) ==
    [i \in 1..Len(segments) |-> filter_complex(SubSeq(segments, i, i))]

\* The render runs of generate_final_video: a single subprocess.run whose
\* command carries the filter of the whole segment list.
EncoderInvocations(segments) == <<filter_complex(segments)>>

\* generate_final_video: what it does with the end of subprocess.run of the
\* render.  CalledProcessError and KeyboardInterrupt are caught and both
\* return False; anything else (ffmpeg missing) leaves the function.
generate_final_video(ended) ==
    IF ended = "ok"
    THEN [raised |-> "none", returned |-> "True", report |-> "none"]
    ELSE IF ended = "CalledProcessError"
    THEN [raised |-> "none", returned |-> "False",
          report |-> "ffmpeg_reencoding_error"]
    ELSE IF ended = "KeyboardInterrupt"
    THEN [raised |-> "none", returned |-> "False",
          report |-> "user_cancelled_encoding"]
    ELSE [raised |-> ended, returned |-> "unset", report |-> "none"]

\* main's report of the value generate_final_video returned.
ReportOf(returned) ==
    IF returned = "True" THEN "success" ELSE "process_failed"

\* success = generate_final_video(...) and main's report of it.
main_generate_final_video ==
    /\ pc = "generate_final_video"
    /\ calls' = Append(calls, "generate_final_video")
    /\ \E ended \in {"ok", "CalledProcessError", "KeyboardInterrupt",
                     "FileNotFoundError"} :
          LET result == generate_final_video(ended) IN
          /\ encoder_calls' = encoder_calls \o EncoderInvocations(final_segments)
          /\ render_result' = ended
          /\ render_report' = result.report
          /\ success' = result.returned
          /\ IF result.raised # "none"
             THEN Raise(result.raised)
             ELSE Return(ReportOf(result.returned))
    /\ UNCHANGED <<framerate, stderr_lines, analysis_exit, bright_frames, event_groups,
                   final_segments, PRE_ROLL_SECONDS, POST_ROLL_SECONDS,
                   first_segments, fed_back>>

Next ==
    \/ main_check_dependencies
    \/ main_get_video_file_from_user
    \/ main_get_video_framerate
    \/ main_detect_bright_frames
    \/ main_group_continuous_frames
    \/ main_calculate_and_merge_final_segments
    \/ main_generate_final_video

Spec == Init /\ [][Next]_vars

----------------------------------------------------------------------------
\* The segment builder on its own: any list of events, any non-negative
\* padding, and its output fed back as events with zero padding.

InitSeg ==
    /\ pc = "calculate_and_merge_final_segments"
    /\ calls = <<>>
    /\ raised = "none"
    /\ outcome = "running"
    /\ framerate = NoFramerate
    /\ stderr_lines = <<>>
    /\ analysis_exit = "none"
    /\ bright_frames = <<>>
    /\ event_groups \in SeqsUpTo(Events, MaxEvents)
    /\ final_segments = <<>>
    /\ encoder_calls = <<>>
    /\ render_result = "none"
    /\ render_report = "none"
    /\ success = "unset"
    /\ PRE_ROLL_SECONDS \in 0..MaxRoll
    /\ POST_ROLL_SECONDS \in 0..MaxRoll
    /\ first_segments = <<>>
    /\ fed_back = FALSE

\* The segment list just built becomes the event list, with zero padding.
FeedBack ==
    /\ pc \in {"generate_final_video", "done"}
    /\ ~fed_back
    /\ fed_back' = TRUE
    /\ first_segments' = final_segments
    /\ event_groups' = final_segments
    /\ PRE_ROLL_SECONDS' = 0
    /\ POST_ROLL_SECONDS' = 0
    /\ Continue("calculate_and_merge_final_segments")
    /\ UNCHANGED <<calls, framerate, stderr_lines, analysis_exit, bright_frames,
                   final_segments, encoder_calls, render_result,
                   render_report, success>>

NextSeg ==
    \/ main_calculate_and_merge_final_segments
    \/ FeedBack

SpecSeg == InitSeg /\ [][NextSeg]_vars

----------------------------------------------------------------------------
\* generate_final_video on its own: any non-empty list of segments.

InitRender ==
    /\ pc = "generate_final_video"
    /\ calls = <<>>
    /\ raised = "none"
    /\ outcome = "running"
    /\ framerate = NoFramerate
    /\ stderr_lines = <<>>
    /\ analysis_exit = "none"
    /\ bright_frames = <<>>
    /\ event_groups = <<>>
    /\ final_segments \in SeqsUpTo(Events, MaxEvents) \ {<<>>}
    /\ encoder_calls = <<>>
    /\ render_result = "none"
    /\ render_report = "none"
    /\ success = "unset"
    /\ PRE_ROLL_SECONDS = ConfiguredPreRoll
    /\ POST_ROLL_SECONDS = ConfiguredPostRoll
    /\ first_segments = <<>>
    /\ fed_back = FALSE

NextRender == main_generate_final_video

SpecRender == InitRender /\ [][NextRender]_vars

----------------------------------------------------------------------------
\* Properties of the segment builder (checked under SpecSeg).

\* The last call main made was the segment builder and it has returned:
\* final_segments is its output for event_groups and the current padding.
BuilderReturned ==
    /\ calls # <<>>
    /\ calls[Len(calls)] = "calculate_and_merge_final_segments"
    /\ pc # "calculate_and_merge_final_segments"

\* C1: the segment list returned by calculate_and_merge_final_segments is
\* sorted ascending by start, and each segment ends strictly before the next
\* one starts.
C1_SegmentsSortedAndSeparated ==
    BuilderReturned =>
        \A i \in 1..(Len(final_segments) - 1) :
            /\ final_segments[i][1] <= final_segments[i + 1][1]
            /\ final_segments[i][2] < final_segments[i + 1][1]

\* An unsorted list of three events, two of which merge, gives two segments.
C1_Witness ==
    /\ BuilderReturned
    /\ ~fed_back
    /\ Len(event_groups) = 3
    /\ event_groups[1][1] > event_groups[2][1]
    /\ Len(final_segments) = 2

\* C2: the padded interval (max(0, start - preRoll), end + postRoll) of every
\* input event lies within one segment of the returned list.
C2_PaddedEventsCovered ==
    BuilderReturned =>
        \A i \in 1..Len(event_groups) :
            LET lo == IF event_groups[i][1] - PRE_ROLL_SECONDS > 0
                      THEN event_groups[i][1] - PRE_ROLL_SECONDS
                      ELSE 0
                hi == event_groups[i][2] + POST_ROLL_SECONDS
            IN  \E j \in 1..Len(final_segments) :
                    /\ final_segments[j][1] <= lo
                    /\ hi <= final_segments[j][2]

\* Three events that do not touch before padding end up in one segment.
C2_Witness ==
    /\ BuilderReturned
    /\ ~fed_back
    /\ Len(event_groups) = 3
    /\ \A i, j \in 1..3 :
          i # j => \/ event_groups[i][2] < event_groups[j][1]
                   \/ event_groups[j][2] < event_groups[i][1]
    /\ PRE_ROLL_SECONDS > 0
    /\ POST_ROLL_SECONDS > 0
    /\ Len(final_segments) = 1

\* C8: the segment builder applied to its own output, taken as events with
\* zero padding, returns that output again.
C8_BuilderIdempotent ==
    (fed_back /\ BuilderReturned) => final_segments = first_segments

\* A first output of two segments, one of them clamped at zero, was fed back.
C8_Witness ==
    /\ fed_back
    /\ BuilderReturned
    /\ Len(first_segments) >= 2
    /\ first_segments[1][1] = 0
    /\ final_segments = first_segments

\* C9: with (s, e) ranging over the padded candidates, two candidates of
\* which one starts within the other (s_i <= s_j <= e_i, touching included)
\* are in one segment, whose end is the largest end of the candidates it
\* holds; a candidate that starts after the end of every candidate starting
\* before it is not merged: it starts a segment of its own.
C9_MergeExactlyWhenStartWithinEnd ==
    BuilderReturned =>
        LET cand == [i \in 1..Len(event_groups) |->
                        <<IF event_groups[i][1] - PRE_ROLL_SECONDS > 0
                          THEN event_groups[i][1] - PRE_ROLL_SECONDS
                          ELSE 0,
                          event_groups[i][2] + POST_ROLL_SECONDS>>]
            n == Len(cand)
            m == Len(final_segments)
            Held(k) == {i \in 1..n : /\ final_segments[k][1] <= cand[i][1]
                                     /\ cand[i][1] <= final_segments[k][2]}
        IN  /\ \A i, j \in 1..n :
                  (cand[i][1] <= cand[j][1] /\ cand[j][1] <= cand[i][2]) =>
                      \E k \in 1..m : i \in Held(k) /\ j \in Held(k)
            /\ \A k \in 1..m :
                  /\ \E i \in Held(k) : cand[i][2] = final_segments[k][2]
                  /\ \A i \in Held(k) : cand[i][2] <= final_segments[k][2]
            /\ \A j \in 1..n :
                  (\A i \in 1..n : cand[i][1] < cand[j][1] => cand[i][2] < cand[j][1])
                      => \E k \in 1..m : final_segments[k][1] = cand[j][1]

\* Two events whose padded forms touch exactly are merged, a third one that
\* starts later is kept apart.
C9_Witness ==
    /\ BuilderReturned
    /\ ~fed_back
    /\ Len(event_groups) = 3
    /\ Len(final_segments) = 2
    /\ \E i, j \in 1..3 :
          /\ event_groups[i][2] + POST_ROLL_SECONDS =
                 event_groups[j][1] - PRE_ROLL_SECONDS
          /\ event_groups[i][1] < event_groups[j][1]
          /\ final_segments[1][2] = event_groups[j][2] + POST_ROLL_SECONDS

\* C10: every padded candidate starts at max(0, start - preRoll), so no
\* candidate and no returned segment has a negative start.
C10_NoNegativeStart ==
    BuilderReturned =>
        /\ \A i \in 1..Len(event_groups) :
              LET padded == PaddedSegments(event_groups)[i][1] IN
              /\ padded >= 0
              /\ padded >= event_groups[i][1] - PRE_ROLL_SECONDS
              /\ padded \in {0, event_groups[i][1] - PRE_ROLL_SECONDS}
        /\ \A k \in 1..Len(final_segments) : final_segments[k][1] >= 0

\* An event starts earlier than the pre-roll is long and is clamped to zero.
C10_Witness ==
    /\ BuilderReturned
    /\ ~fed_back
    /\ \E i \in 1..Len(event_groups) :
          event_groups[i][1] - PRE_ROLL_SECONDS < 0
    /\ final_segments[1][1] = 0

\* C16 as claimed: the sorted candidates are ascending by start, and those of
\* equal start are ascending by end.
C16_SortTiesAscendingByEnd ==
    BuilderReturned =>
        LET segments == SortByStart(PaddedSegments(event_groups)) IN
        \A i \in 1..(Len(segments) - 1) :
            \/ segments[i][1] < segments[i + 1][1]
            \/ /\ segments[i][1] = segments[i + 1][1]
               /\ segments[i][2] <= segments[i + 1][2]

\* C16, amended: the sorted candidates are the padded candidates ascending by
\* start, and those of equal start stand in the order they had in the event
\* list.
C16_SortAscendingByStartStable ==
    BuilderReturned =>
        LET padded == PaddedSegments(event_groups)
            segments == SortByStart(padded)
        IN  /\ Len(segments) = Len(padded)
            /\ \A i \in 1..(Len(segments) - 1) :
                  segments[i][1] <= segments[i + 1][1]
            /\ \A start \in {padded[i][1] : i \in 1..Len(padded)} :
                  LET StartsThere(segment) == segment[1] = start IN
                  SelectSeq(segments, StartsThere)
                      = SelectSeq(padded, StartsThere)

\* Two events of equal start, the first with the later end, were sorted and
\* kept their order.
C16_Witness ==
    /\ BuilderReturned
    /\ Len(event_groups) = 2
    /\ PadEvent(event_groups[1])[1] = PadEvent(event_groups[2])[1]
    /\ PadEvent(event_groups[1])[2] > PadEvent(event_groups[2])[2]
    /\ SortByStart(PaddedSegments(event_groups))
           = <<PadEvent(event_groups[1]), PadEvent(event_groups[2])>>

\* C18: the segment builder adds no coverage: the start of every returned
\* segment is the padded start of an event and its end the padded end of an
\* event, every point of a returned segment lies in the padded interval of an
\* event, and every point of a padded interval lies in a returned segment.
\* Points are taken at half the model's resolution.
C18_BuilderAddsNoCoverage ==
    BuilderReturned =>
        LET padded == PaddedSegments(event_groups)
            covers(segment, t2) == 2 * segment[1] <= t2 /\ t2 <= 2 * segment[2]
            points(segment) == (2 * segment[1])..(2 * segment[2])
        IN  /\ \A k \in 1..Len(final_segments) :
                  /\ \E i \in 1..Len(padded) :
                        final_segments[k][1] = padded[i][1]
                  /\ \E i \in 1..Len(padded) :
                        final_segments[k][2] = padded[i][2]
                  /\ \A t2 \in points(final_segments[k]) :
                        \E i \in 1..Len(padded) : covers(padded[i], t2)
            /\ \A i \in 1..Len(padded) :
                  \A t2 \in points(padded[i]) :
                      \E k \in 1..Len(final_segments) :
                          covers(final_segments[k], t2)

\* Three events gave two segments: one is the union of two padded events that
\* overlap, and it is separated from the other by one unit.
C18_Witness ==
    /\ BuilderReturned
    /\ ~fed_back
    /\ Len(event_groups) = 3
    /\ Len(final_segments) = 2
    /\ \A i \in 1..3 : PadEvent(event_groups[i]) # final_segments[1]
    /\ final_segments[1][2] + 1 = final_segments[2][1]

\* C19: the segment list returned by calculate_and_merge_final_segments does
\* not depend on the order of the events: exchanging two neighbours of the
\* event list, or reversing it, gives the same list.  The event lists are all
\* lists over the events, and every permutation is a chain of exchanges of
\* neighbours, so this is the same for every permutation of every list.
C19_BuilderOrderIndependent ==
    BuilderReturned =>
        LET n == Len(event_groups)
            exchanged(k) ==
                [i \in 1..n |-> IF i = k THEN event_groups[k + 1]
                                ELSE IF i = k + 1 THEN event_groups[k]
                                ELSE event_groups[i]]
            reversed == [i \in 1..n |-> event_groups[n + 1 - i]]
        IN  /\ \A k \in 1..(n - 1) :
                  calculate_and_merge_final_segments(exchanged(k))
                      = final_segments
            /\ calculate_and_merge_final_segments(reversed) = final_segments

\* Two events of equal padded start and different ends, and a third one,
\* not in the order of their starts, were merged.
C19_Witness ==
    /\ BuilderReturned
    /\ ~fed_back
    /\ Len(event_groups) = 3
    /\ event_groups[1][1] > event_groups[2][1]
    /\ PadEvent(event_groups[2])[1] = PadEvent(event_groups[3])[1]
    /\ event_groups[2][2] > event_groups[3][2]
    /\ Len(final_segments) = 1

----------------------------------------------------------------------------
\* Properties of the run of main() (checked under Spec).

\* main has called f and the call returned a value.
Returned(f) ==
    \E k \in 1..Len(calls) :
        /\ calls[k] = f
        /\ (k < Len(calls) \/ raised = "none")

\* C3: for an ascending list of bright timestamps and a positive frame rate,
\* two consecutive timestamps no more than max_gap = 1.5 / framerate apart lie
\* in the same event of group_continuous_frames, and two that are further
\* apart are the end of one event and the start of the next.
C3_GroupingFollowsMaxGap ==
    (/\ Returned("group_continuous_frames")
     /\ \A i \in 1..(Len(bright_frames) - 1) :
           bright_frames[i] <= bright_frames[i + 1]
     /\ framerate.num > 0
     /\ framerate.den > 0) =>
        LET Close(i) == (bright_frames[i + 1] - bright_frames[i]) * framerate.num
                            <= MaxGapTicks * framerate.den
            pairs == 1..(Len(bright_frames) - 1)
        IN  /\ \A i \in pairs :
                  IF Close(i)
                  THEN \E k \in 1..Len(event_groups) :
                          /\ event_groups[k][1] <= bright_frames[i]
                          /\ bright_frames[i + 1] <= event_groups[k][2]
                  ELSE \E k \in 1..(Len(event_groups) - 1) :
                          /\ event_groups[k][2] = bright_frames[i]
                          /\ event_groups[k + 1][1] = bright_frames[i + 1]
            /\ Len(event_groups) = 1 + Cardinality({i \in pairs : ~Close(i)})

\* Three timestamps: the first two exactly max_gap apart, the third further.
C3_Witness ==
    /\ Returned("group_continuous_frames")
    /\ Len(bright_frames) = 3
    /\ framerate.num > 0
    /\ framerate.den > 0
    /\ bright_frames[2] > bright_frames[1]
    /\ (bright_frames[2] - bright_frames[1]) * framerate.num
           = MaxGapTicks * framerate.den
    /\ (bright_frames[3] - bright_frames[2]) * framerate.num
           > MaxGapTicks * framerate.den
    /\ Len(event_groups) = 2

\* C4: the list built by detect_bright_frames holds the timestamps of the
\* samples brighter than the threshold, in their order, and nothing else; a
\* sample exactly at the threshold is left out.
C4_ThresholdFilterExact ==
    Returned("detect_bright_frames") =>
        LET Above(line) == line.kind = "match" /\ line.yavg > BRIGHTNESS_THRESHOLD
            kept == SelectSeq(stderr_lines, Above)
        IN  /\ Len(bright_frames) = Len(kept)
            /\ \A i \in 1..Len(kept) : bright_frames[i] = kept[i].pts_time

\* A sample at the threshold is dropped between two brighter ones.
C4_Witness ==
    /\ Returned("detect_bright_frames")
    /\ Len(stderr_lines) = 3
    /\ stderr_lines[1].yavg > BRIGHTNESS_THRESHOLD
    /\ stderr_lines[2].kind = "match"
    /\ stderr_lines[2].yavg = BRIGHTNESS_THRESHOLD
    /\ stderr_lines[3].yavg > BRIGHTNESS_THRESHOLD
    /\ stderr_lines[1].pts_time # stderr_lines[3].pts_time
    /\ bright_frames = <<stderr_lines[1].pts_time, stderr_lines[3].pts_time>>

\* C5: with a frame rate of zero or less, group_continuous_frames produces no
\* event list and neither the segment builder nor the render is called.
C5_NonPositiveFrameRateFailsFast ==
    (framerate # NoFramerate /\ framerate.num * framerate.den <= 0) =>
        /\ ~Returned("group_continuous_frames")
        /\ \A k \in 1..Len(calls) :
              calls[k] \notin {"calculate_and_merge_final_segments",
                               "generate_final_video"}

\* C6: a render the operator interrupted does not end in the report of a
\* render whose encoder exited non-zero.
C6_CancelledRenderReportedApart ==
    render_result = "KeyboardInterrupt" =>
        outcome # ReportOf(generate_final_video("CalledProcessError").returned)

\* C7: when detect_bright_frames returns an empty list the run ends there
\* with the "no lightning" report: no grouping, no segments, no render.
C7_EmptyFilterEndsRun ==
    (Returned("detect_bright_frames") /\ bright_frames = <<>>) =>
        /\ pc = "done"
        /\ outcome = "no_lightning"
        /\ calls[Len(calls)] = "detect_bright_frames"
        /\ event_groups = <<>>
        /\ final_segments = <<>>
        /\ encoder_calls = <<>>

\* The analysis printed samples, none of them brighter than the threshold.
C7_Witness ==
    /\ pc = "done"
    /\ outcome = "no_lightning"
    /\ \E i \in 1..Len(stderr_lines) :
          /\ stderr_lines[i].kind = "match"
          /\ stderr_lines[i].yavg = BRIGHTNESS_THRESHOLD
    /\ bright_frames = <<>>

\* C11: in one run the render ffmpeg is started at most once, its filter
\* holds one term for every segment of the list, and after a failed or
\* cancelled render the run is over with that single invocation.
C11_EncoderInvokedAtMostOnce ==
    /\ Len(encoder_calls) <= 1
    /\ encoder_calls # <<>> =>
          /\ Len(encoder_calls[1].video) = Len(final_segments)
          /\ \A i \in 1..Len(final_segments) :
                /\ encoder_calls[1].video[i].lo = final_segments[i][1]
                /\ encoder_calls[1].video[i].hi = final_segments[i][2]
    /\ render_result \in {"CalledProcessError", "KeyboardInterrupt"} =>
          /\ pc = "done"
          /\ Len(encoder_calls) = 1

\* A render of two segments failed and the run ended after that one run.
C11_Witness ==
    /\ pc = "done"
    /\ render_result = "CalledProcessError"
    /\ Len(final_segments) = 2
    /\ Len(encoder_calls) = 1
    /\ Len(encoder_calls[1].video) = 2

\* The state of the run in the terms of the pipeline's state machine: the
\* stage main is in, or the way the run ended.
RunState ==
    IF pc \in {"check_dependencies", "get_video_file_from_user",
               "get_video_framerate"}
    THEN "Idle"
    ELSE IF pc = "detect_bright_frames"
    THEN "ExtractingSamples"
    ELSE IF pc = "group_continuous_frames"
    THEN "EventsGrouped"
    ELSE IF pc = "calculate_and_merge_final_segments"
    THEN "SegmentsBuilt"
    ELSE IF pc = "generate_final_video"
    THEN "Rendering"
    ELSE IF outcome \in {"no_lightning", "no_clips"}
    THEN "NoEventsFound"
    ELSE IF outcome = "success"
    THEN "RenderSucceeded"
    ELSE IF outcome = "process_failed"
    THEN "RenderFailed"
    ELSE "Aborted"

\* C12 as claimed: every step of a run is a transition of Idle ->
\* ExtractingSamples -> {NoEventsFound | EventsGrouped} -> SegmentsBuilt ->
\* Rendering -> {RenderSucceeded | RenderFailed} (or stays in Idle while the
\* input is acquired), and no step leaves a terminal state.
C12_RunFollowsStateMachine ==
    [][LET machine == {<<"Idle", "ExtractingSamples">>,
                       <<"ExtractingSamples", "NoEventsFound">>,
                       <<"ExtractingSamples", "EventsGrouped">>,
                       <<"EventsGrouped", "SegmentsBuilt">>,
                       <<"SegmentsBuilt", "Rendering">>,
                       <<"Rendering", "RenderSucceeded">>,
                       <<"Rendering", "RenderFailed">>}
       IN  /\ pc # "done"
           /\ \/ RunState = "Idle" /\ RunState' = "Idle"
              \/ <<RunState, RunState'>> \in machine]_vars

\* C12 as amended: the same, with one more terminal state, Aborted, which the
\* run enters from Idle, ExtractingSamples, EventsGrouped or Rendering when a
\* call exits, raises or is interrupted; no state is entered twice and no
\* step leaves NoEventsFound, RenderSucceeded, RenderFailed or Aborted.
C12_RunFollowsStateMachineOrAborts ==
    [][LET machine == {<<"Idle", "ExtractingSamples">>,
                       <<"ExtractingSamples", "NoEventsFound">>,
                       <<"ExtractingSamples", "EventsGrouped">>,
                       <<"EventsGrouped", "SegmentsBuilt">>,
                       <<"SegmentsBuilt", "Rendering">>,
                       <<"Rendering", "RenderSucceeded">>,
                       <<"Rendering", "RenderFailed">>}
           aborts == {<<"Idle", "Aborted">>,
                      <<"ExtractingSamples", "Aborted">>,
                      <<"EventsGrouped", "Aborted">>,
                      <<"Rendering", "Aborted">>}
       IN  /\ pc # "done"
           /\ \/ RunState = "Idle" /\ RunState' = "Idle"
              \/ <<RunState, RunState'>> \in machine \cup aborts]_vars

\* A run went through every stage and ended in RenderFailed.
C12_Witness ==
    /\ RunState = "RenderFailed"
    /\ calls = <<"check_dependencies", "get_video_file_from_user",
                 "get_video_framerate", "detect_bright_frames",
                 "group_continuous_frames",
                 "calculate_and_merge_final_segments",
                 "generate_final_video">>

\* C13: when the frame-rate resolver fails or returns something unusable, or
\* the analysis tool cannot be started, exits non-zero or prints a number
\* that does not parse, the run is over, no later stage was called and the
\* run did not end in a success report.
C13_UpstreamFailureAbortsRun ==
    (\/ /\ calls # <<>>
        /\ calls[Len(calls)] = "get_video_framerate"
        /\ raised \in {"SystemExit(1)", "ZeroDivisionError"}
     \/ /\ calls # <<>>
        /\ calls[Len(calls)] = "detect_bright_frames"
        /\ raised \in {"SystemExit(1)", "ValueError"}
     \/ analysis_exit = "nonzero") =>
        /\ pc = "done"
        /\ \A k \in 1..Len(calls) :
              calls[k] \notin {"group_continuous_frames",
                               "calculate_and_merge_final_segments",
                               "generate_final_video"}
        /\ outcome \notin {"no_lightning", "no_clips", "success"}

\* C14: a line that does not match the pattern is skipped: the list
\* detect_bright_frames returns is the one it returns for the same lines with
\* the non-matching ones taken out, and every bright sample is in it, also
\* when it comes after a non-matching line.
C14_NonMatchingLinesSkipped ==
    Returned("detect_bright_frames") =>
        LET Matches(line) == line.kind # "nomatch"
            kept == SelectSeq(stderr_lines, Matches)
            bright == {i \in 1..Len(stderr_lines) :
                          /\ stderr_lines[i].kind = "match"
                          /\ stderr_lines[i].yavg > BRIGHTNESS_THRESHOLD}
        IN  /\ detect_bright_frames(kept).raised = "none"
            /\ detect_bright_frames(kept).value = bright_frames
            /\ Len(bright_frames) = Cardinality(bright)
            /\ \A i \in bright :
                  \E j \in 1..Len(bright_frames) :
                      bright_frames[j] = stderr_lines[i].pts_time

\* A non-matching line stands between two bright samples and both are kept.
C14_Witness ==
    /\ Returned("detect_bright_frames")
    /\ Len(stderr_lines) = 3
    /\ stderr_lines[1].kind = "match"
    /\ stderr_lines[2].kind = "nomatch"
    /\ stderr_lines[3].kind = "match"
    /\ stderr_lines[1].pts_time < stderr_lines[3].pts_time
    /\ bright_frames = <<stderr_lines[1].pts_time, stderr_lines[3].pts_time>>

\* C15: the select expression of the render is true at a time t exactly when
\* t lies in one of the segments (ends included), and the aselect expression
\* is made of the same segments in the same order as the select expression.
\* Times are taken at half the model's resolution, so that points strictly
\* between two segments are among them.
C15_FilterSelectsExactlySegments ==
    encoder_calls # <<>> =>
        LET f == encoder_calls[1]
            between(t2, term) == 2 * term.lo <= t2 /\ t2 <= 2 * term.hi
            selects(terms, t2) ==
                \E i \in 1..Len(terms) : between(t2, terms[i])
            inSegment(t2) ==
                \E i \in 1..Len(final_segments) :
                    /\ 2 * final_segments[i][1] <= t2
                    /\ t2 <= 2 * final_segments[i][2]
        IN  /\ final_segments # <<>>
            /\ \A t2 \in 0..(2 * MaxEventTime + 2) :
                  /\ selects(f.video, t2) <=> inSegment(t2)
                  /\ selects(f.audio, t2) <=> inSegment(t2)
            /\ Len(f.audio) = Len(f.video)
            /\ \A i \in 1..Len(f.video) : f.audio[i] = f.video[i]

\* A render of two segments with time between them that neither holds.
C15_Witness ==
    /\ Len(encoder_calls) = 1
    /\ Len(final_segments) = 2
    /\ final_segments[1][2] + 1 < final_segments[2][1]
    /\ Len(encoder_calls[1].audio) = 2
    /\ encoder_calls[1].audio[2].lo = final_segments[2][1]

\* C17: for a non-empty ascending list of bright timestamps and a positive
\* frame rate, every event of group_continuous_frames has start <= end, each
\* event ends strictly before the next one starts, and a timestamp with no
\* neighbour within max_gap is an event with start = end.
C17_EventsWellFormed ==
    (/\ Returned("group_continuous_frames")
     /\ bright_frames # <<>>
     /\ \A i \in 1..(Len(bright_frames) - 1) :
           bright_frames[i] <= bright_frames[i + 1]
     /\ framerate.num > 0
     /\ framerate.den > 0) =>
        LET n == Len(bright_frames)
            Far(i) == (bright_frames[i + 1] - bright_frames[i]) * framerate.num
                          > MaxGapTicks * framerate.den
            Alone(i) == /\ i > 1 => Far(i - 1)
                        /\ i < n => Far(i)
        IN  /\ event_groups # <<>>
            /\ \A k \in 1..Len(event_groups) :
                  event_groups[k][1] <= event_groups[k][2]
            /\ \A k \in 1..(Len(event_groups) - 1) :
                  event_groups[k][2] < event_groups[k + 1][1]
            /\ \A i \in 1..n :
                  Alone(i) =>
                      \E k \in 1..Len(event_groups) :
                          event_groups[k] = <<bright_frames[i], bright_frames[i]>>

\* An event of two timestamps is followed by an event of a single one.
C17_Witness ==
    /\ Returned("group_continuous_frames")
    /\ framerate.num > 0
    /\ framerate.den > 0
    /\ Len(bright_frames) = 3
    /\ bright_frames[1] < bright_frames[2]
    /\ bright_frames[2] < bright_frames[3]
    /\ Len(event_groups) = 2
    /\ event_groups[1] = <<bright_frames[1], bright_frames[2]>>
    /\ event_groups[2] = <<bright_frames[3], bright_frames[3]>>

\* C20: in main, with a non-empty list of bright timestamps and a positive
\* frame rate, group_continuous_frames returns at least one event, the segment
\* builder returns at least one segment and no more segments than events, the
\* run never ends with "No final video clips could be created", and it ends
\* only after the render ffmpeg was started, with a non-empty segment list.
C20_NoClipsExitUnreachable ==
    /\ outcome # "no_clips"
    /\ \A k \in 1..Len(encoder_calls) : encoder_calls[k].video # <<>>
    /\ (/\ bright_frames # <<>>
        /\ framerate.num > 0
        /\ framerate.den > 0) =>
          /\ Returned("group_continuous_frames") => Len(event_groups) >= 1
          /\ Returned("calculate_and_merge_final_segments") =>
                /\ Len(final_segments) >= 1
                /\ Len(final_segments) <= Len(event_groups)
          /\ pc = "done" =>
                /\ Len(encoder_calls) = 1
                /\ Len(encoder_calls[1].video) = Len(final_segments)

\* Three events became one segment and the render was run with it.
C20_Witness ==
    /\ pc = "done"
    /\ framerate.num > 0
    /\ framerate.den > 0
    /\ Len(bright_frames) = 3
    /\ Len(event_groups) = 3
    /\ Len(final_segments) = 1
    /\ Len(encoder_calls) = 1
    /\ Len(encoder_calls[1].video) = 1
    /\ outcome = "success"

====
